---- MODULE Spec2Model ----
(***************************************************************************)
(* A model of the two scripts of the repository:                           *)
(*   memorization/eval_memorization.py                                     *)
(*     - the range partitioning of main (SpecPartition),                   *)
(*     - one worker: the prefetch producer generate_dataset and the        *)
(*       scoring loop of main, joined by mp_queue (Spec, LiveSpec);        *)
(*   conditional-training/convert_dataset_labeled_json.py                  *)
(*     - ConcatLabeledTokensDataset.__iter__ with score_to_label           *)
(*       (SpecConcat),                                                     *)
(*     - parse_args and main (SpecConvert);                                *)
(*   and, again for eval_memorization.py, the dist.barrier() calls of all  *)
(*   the ranks of one run (SpecBarrier).                                   *)
(* The environment values the scripts read (CHECKPOINT, SLURM_NPROCS,      *)
(* SLURM_PROCID, the arguments of generate_dataset, the command line of    *)
(* the converter, the samples of the input and the draws of                *)
(* np.random.uniform) are drawn from bounded sets.                         *)
(***************************************************************************)
EXTENDS Integers, Sequences, FiniteSets, TLC

VARIABLES
    \* ---- main of eval_memorization.py, seen across the ranks
    total_num_sequences,   \* CHECKPOINT*1024
    NUM_PROCS,             \* SLURM_NPROCS
    ranges,                \* rank -> <<start_idx, end_idx>> once that rank computed it, <<>> before
    \* ---- one worker: main and its ds_process
    RANK,                  \* SLURM_PROCID
    batch_size,            \* generate_dataset's batch_size
    prefetch_max,          \* generate_dataset's prefetch_max
    start_seq_idx,         \* generate_dataset's start_seq_idx (main's start_idx)
    end_seq_idx,           \* generate_dataset's end_seq_idx (main's end_idx)
    mp_queue,              \* the multiprocessing.Queue, oldest item first
    ppc,                   \* where generate_dataset is
    it,                    \* the next value of range(start_seq_idx, end_seq_idx + 1)
    i,                     \* generate_dataset's variable i
    context_tokens,        \* generate_dataset's list context_tokens
    true_continuation,     \* generate_dataset's list true_continuation
    puts,                  \* history: every item ever handed to mp_queue.put, in order
    cpc,                   \* where main is
    memorization_evals,    \* main's list memorization_evals
    iters,                 \* main's counter iters
    queue_closed,          \* mp_queue.close() was called
    uploaded,              \* the Body handed to s3.put_object, <<>> before
    \* ---- ConcatLabeledTokensDataset.__iter__
    max_length,            \* self.max_length
    should_wrap,           \* self.should_wrap (not --no_wrap)
    label_prob,            \* self.label_prob, in tenths
    bos_tokens,            \* self.bos_tokens
    eos_tokens,            \* self.eos_tokens
    ipc,                   \* where __iter__ is
    hf_pos,                \* the number of samples taken from self.hf_dataset
    sample,                \* the loop variable sample
    sent_pos,              \* the number of (sent, score) pairs of sample already processed
    uniform,               \* the last value of np.random.uniform(), in tenths
    buffer,                \* the list buffer
    yielded,               \* history: the dicts yielded, in order
    windows,               \* history: the lists concat_sample, in order
    stream,                \* history: everything ever appended to buffer, in order
    consumed,              \* history: the number of sentences processed over all samples
    drain_start,           \* history: buffer when the last drain loop began
    drain_count,           \* history: the number of windows the last drain loop yielded
    \* ---- parse_args and main of convert_dataset_labeled_json.py
    out_root_isdir,        \* os.path.isdir(parsed.out_root)
    out_root_listdir,      \* set(os.listdir(parsed.out_root)), names as tuples of characters
    args_split,            \* --split, a tuple of characters
    args_concat_tokens,    \* --concat_tokens, or None
    args_tokenizer,        \* --tokenizer, or None
    args_num_sentinels,    \* --num-sentinels, or None
    boundary_text,         \* bos_text + eos_text
    tokenizer_inserts,     \* the tokenizer puts a BOS first or an EOS last on its own
    mpc,                   \* where the script is
    raised,                \* the exception that ended the script, or None
    mode,                  \* main's mode
    tokenizer,             \* main's tokenizer: None, or the number of additional special tokens
    columns,               \* main's columns: the one field name
    dataset,               \* what build_hf_dataset returned
    written,               \* history: the field name of every sample handed to out.write
    \* ---- dist.barrier() across the ranks of eval_memorization.py
    BATCH_SIZE,            \* main's BATCH_SIZE
    wpc,                   \* rank -> where main is
    arrived,               \* rank -> the number of dist.barrier() calls made
    todo                   \* rank -> the batches its ds_process has still to deliver

partVars == <<total_num_sequences, NUM_PROCS, ranges>>
workerVars == <<RANK, batch_size, prefetch_max, start_seq_idx, end_seq_idx, mp_queue,
                ppc, it, i, context_tokens, true_continuation, puts, cpc,
                memorization_evals, iters, queue_closed, uploaded>>
concatVars == <<max_length, should_wrap, label_prob, bos_tokens, eos_tokens, ipc, hf_pos,
                sample, sent_pos, uniform, buffer, yielded, windows, stream, consumed,
                drain_start, drain_count>>
convertVars == <<out_root_isdir, out_root_listdir, args_split, args_concat_tokens,
                 args_tokenizer, args_num_sentinels, boundary_text, tokenizer_inserts, mpc,
                 raised, mode, tokenizer, columns, dataset, written>>
barrierVars == <<BATCH_SIZE, wpc, arrived, todo>>
vars == <<partVars, workerVars, concatVars, convertVars, barrierVars>>

\* ---------------------------------------------------------------- bounds
MaxPartitionTotal == 12
MaxCheckpoint == 2
MaxPartitionProcs == 4
MaxTotal == 6
MaxProcs == 3
MaxBatch == 3
MaxPrefetch == 2
MaxLength == 3
MaxSamples == 2
MaxSentences == 2
MaxRecords == 2
\* --num-sentinels
num_sentinels == 2

\* ---------------------------------------------------------------- helpers
\* Python's None, and a value that is not None
None == <<>>
Some(x) == <<x>>

Min(a, b) == IF a <= b THEN a ELSE b

\* ---------------------------------------------------------------- range partitioning
\* total_num_sequences = CHECKPOINT*1024
SEQUENCES_PER_STEP == 1024

\* a partitioner that rounds the share of a rank up
num_sequences_per_proc_ceil(total, nprocs) == (total + nprocs - 1) \div nprocs

\* num_sequences_per_proc = total_num_sequences//NUM_PROCS
num_sequences_per_proc(total, nprocs) == total \div nprocs

\* start_idx = num_sequences_per_proc*RANK
start_idx(total, nprocs, rank) == num_sequences_per_proc(total, nprocs) * rank

\* the end index without the last rank's correction: a partitioner that forgets the remainder
end_idx_no_remainder(total, nprocs, rank) ==
    num_sequences_per_proc(total, nprocs) * (rank + 1) - 1

\* end_idx = num_sequences_per_proc*(RANK+1) - 1; the last rank gets total_num_sequences - 1
end_idx(total, nprocs, rank) ==
    IF rank = nprocs - 1
    THEN total - 1
    ELSE num_sequences_per_proc(total, nprocs) * (rank + 1) - 1

\* the totals main can compute, and the small totals of the partitioning contract
PartitionTotals ==
    (0..MaxPartitionTotal) \cup {c * SEQUENCES_PER_STEP : c \in 1..MaxCheckpoint}

\* ---------------------------------------------------------------- the idle parts
WorkerIdle ==
    /\ RANK = 0
    /\ batch_size = 1
    /\ prefetch_max = 0
    /\ start_seq_idx = 0
    /\ end_seq_idx = 0
    /\ mp_queue = <<>>
    /\ ppc = "unstarted"
    /\ it = 0
    /\ i = 0
    /\ context_tokens = <<>>
    /\ true_continuation = <<>>
    /\ puts = <<>>
    /\ cpc = "unstarted"
    /\ memorization_evals = <<>>
    /\ iters = 0
    /\ queue_closed = FALSE
    /\ uploaded = <<>>

PartitionIdle ==
    /\ total_num_sequences = 0
    /\ NUM_PROCS = 1
    /\ ranges = [r \in 0..0 |-> <<>>]

ConcatIdle ==
    /\ max_length = 1
    /\ should_wrap = TRUE
    /\ label_prob = 0
    /\ bos_tokens = <<>>
    /\ eos_tokens = <<>>
    /\ ipc = "unstarted"
    /\ hf_pos = 0
    /\ sample = [sentences |-> <<>>, scores |-> <<>>]
    /\ sent_pos = 0
    /\ uniform = 0
    /\ buffer = <<>>
    /\ yielded = <<>>
    /\ windows = <<>>
    /\ stream = <<>>
    /\ consumed = 0
    /\ drain_start = <<>>
    /\ drain_count = 0

ConvertIdle ==
    /\ out_root_isdir = FALSE
    /\ out_root_listdir = {}
    /\ args_split = <<>>
    /\ args_concat_tokens = <<>>
    /\ args_tokenizer = <<>>
    /\ args_num_sentinels = <<>>
    /\ boundary_text = ""
    /\ tokenizer_inserts = FALSE
    /\ mpc = "unstarted"
    /\ raised = <<>>
    /\ mode = ""
    /\ tokenizer = <<>>
    /\ columns = ""
    /\ dataset = ""
    /\ written = <<>>

BarrierIdle ==
    /\ BATCH_SIZE = 1
    /\ wpc = [r \in 0..0 |-> "unstarted"]
    /\ arrived = [r \in 0..0 |-> 0]
    /\ todo = [r \in 0..0 |-> 0]

\* ---------------------------------------------------------------- SpecPartition
\* every rank runs main and computes its own range
InitPartition ==
    /\ total_num_sequences \in PartitionTotals
    /\ NUM_PROCS \in 1..MaxPartitionProcs
    /\ ranges = [r \in 0..(NUM_PROCS - 1) |-> <<>>]
    /\ WorkerIdle
    /\ ConcatIdle
    /\ ConvertIdle
    /\ BarrierIdle

\* rank r executes lines 155-160 of main
main_partition(r) ==
    /\ ranges[r] = <<>>
    /\ ranges' = [ranges EXCEPT ![r] =
                    <<start_idx(total_num_sequences, NUM_PROCS, r),
                      end_idx(total_num_sequences, NUM_PROCS, r)>>]
    /\ UNCHANGED <<total_num_sequences, NUM_PROCS, workerVars, concatVars, convertVars,
                   barrierVars>>

NextPartition == \E r \in 0..(NUM_PROCS - 1) : main_partition(r)

SpecPartition == InitPartition /\ [][NextPartition]_vars

AllRanksComputed == \A r \in DOMAIN ranges : ranges[r] # <<>>

\* C1: when 1 <= NUM_PROCS <= total, the inclusive ranges [start_idx, end_idx] the
\* ranks compute lie in 0..total-1, are pairwise disjoint, and once every rank has
\* computed its range every index of 0..total-1 belongs to exactly one of them.
C1_PartitionExact ==
    (1 <= NUM_PROCS /\ NUM_PROCS <= total_num_sequences) =>
        /\ \A r \in DOMAIN ranges : ranges[r] # <<>> =>
              /\ 0 <= ranges[r][1]
              /\ ranges[r][1] <= ranges[r][2]
              /\ ranges[r][2] <= total_num_sequences - 1
        /\ \A r1, r2 \in DOMAIN ranges :
              (r1 < r2 /\ ranges[r1] # <<>> /\ ranges[r2] # <<>>) =>
                 ranges[r1][2] < ranges[r2][1]
        /\ AllRanksComputed =>
              \A x \in 0..(total_num_sequences - 1) :
                 Cardinality({r \in DOMAIN ranges :
                                ranges[r][1] <= x /\ x <= ranges[r][2]}) = 1

\* total=10 with 3 workers gives [0,2],[3,5],[6,9]
C1_Witness ==
    /\ total_num_sequences = 10
    /\ NUM_PROCS = 3
    /\ ranges = [r \in 0..2 |-> IF r = 0 THEN <<0, 2>> ELSE IF r = 1 THEN <<3, 5>> ELSE <<6, 9>>]

\* ---------------------------------------------------------------- one worker
\* dataset[i]['text'][lo:hi]: tokens lo..hi-1 of Pile sequence i
DatasetText(idx, lo, hi) == <<idx, lo, hi>>

\* (start index of batch, context tokens, true continuation)
Batch(tag, ctx, cont) ==
    [idx |-> Some(tag), context |-> Some(ctx), true_continuation |-> Some(cont)]

\* (None, None, None)
Sentinel == [idx |-> None, context |-> None, true_continuation |-> None]

\* a tag that names the index before the batch's first
BatchTagOffByOne(last, len) == last - len

\* i - len(context_tokens) + 1
BatchTag(last, len) == last - len + 1

\* a wait that also holds at exactly prefetch_max items
QueueOverLimitInclusive(q, pmax) == Len(q) >= pmax

\* mp_queue.qsize() > prefetch_max
QueueOverLimit(q, pmax) == Len(q) > pmax

\* a producer that drops the last, partial batch
HasPartialBatchNever(ctx) == FALSE

\* len(context_tokens) > 0
HasPartialBatch(ctx) == Len(ctx) > 0

\* the accuracy score() computes for one row of the batch: a value of the model's
\* generation from ctx compared with cont, kept as the pair it is computed from
Accuracy(ctx, cont) == <<ctx, cont>>

\* score(model, context, true_continuation): one accuracy per row
score(ctx, cont) == [k \in 1..Len(ctx) |-> Accuracy(ctx[k], cont[k])]

\* records that all carry the batch's tag
AppendRecordsSameIdx(evals, idx, accuracies) ==
    evals \o [k \in 1..Len(accuracies) |-> <<idx, accuracies[k]>>]

\* for acc in accuracies: memorization_evals.append(f'{idx},{acc}'); idx += 1
AppendRecords(evals, idx, accuracies) ==
    evals \o [k \in 1..Len(accuracies) |-> <<idx + k - 1, accuracies[k]>>]

InitWorker ==
    /\ total_num_sequences \in 0..MaxTotal
    /\ NUM_PROCS \in 1..MaxProcs
    /\ ranges = [r \in 0..(NUM_PROCS - 1) |-> <<>>]
    /\ RANK \in 0..(NUM_PROCS - 1)
    /\ batch_size \in 1..MaxBatch
    /\ prefetch_max \in 0..MaxPrefetch
    /\ start_seq_idx = 0
    /\ end_seq_idx = 0
    /\ mp_queue = <<>>
    /\ ppc = "unstarted"
    /\ it = 0
    /\ i = 0
    /\ context_tokens = <<>>
    /\ true_continuation = <<>>
    /\ puts = <<>>
    /\ cpc = "start"
    /\ memorization_evals = <<>>
    /\ iters = 0
    /\ queue_closed = FALSE
    /\ uploaded = <<>>
    /\ ConcatIdle
    /\ ConvertIdle
    /\ BarrierIdle

\* main up to the scoring loop: the range of this rank, mp_queue, ds_process.start()
main_start ==
    /\ cpc = "start"
    /\ ranges' = [ranges EXCEPT ![RANK] =
                    <<start_idx(total_num_sequences, NUM_PROCS, RANK),
                      end_idx(total_num_sequences, NUM_PROCS, RANK)>>]
    /\ start_seq_idx' = start_idx(total_num_sequences, NUM_PROCS, RANK)
    /\ end_seq_idx' = end_idx(total_num_sequences, NUM_PROCS, RANK)
    /\ mp_queue' = <<>>
    /\ ppc' = "loop"
    /\ it' = start_idx(total_num_sequences, NUM_PROCS, RANK)
    /\ i' = 0
    /\ context_tokens' = <<>>
    /\ true_continuation' = <<>>
    /\ memorization_evals' = <<>>
    /\ iters' = 0
    /\ cpc' = "loop"
    /\ UNCHANGED <<total_num_sequences, NUM_PROCS, RANK, batch_size, prefetch_max,
                   puts, queue_closed, uploaded, concatVars, convertVars, barrierVars>>

\* one iteration of "for i in range(start_seq_idx, end_seq_idx + 1)": append the
\* pair of sequence i and, when the batch is full, put it and go to the wait
generate_dataset_iter ==
    /\ ppc = "loop"
    /\ it <= end_seq_idx
    /\ i' = it
    /\ it' = it + 1
    /\ LET ctx == Append(context_tokens, DatasetText(it, 0, 32))
           cont == Append(true_continuation, DatasetText(it, 32, 64))
       IN IF Len(ctx) = batch_size
          THEN /\ mp_queue' = Append(mp_queue, Batch(BatchTag(it, Len(ctx)), ctx, cont))
               /\ puts' = Append(puts, Batch(BatchTag(it, Len(ctx)), ctx, cont))
               /\ context_tokens' = <<>>
               /\ true_continuation' = <<>>
               /\ ppc' = "wait"
          ELSE /\ context_tokens' = ctx
               /\ true_continuation' = cont
               /\ UNCHANGED <<mp_queue, puts, ppc>>
    /\ UNCHANGED <<concatVars, convertVars, barrierVars, partVars, RANK, batch_size,
                   prefetch_max, start_seq_idx, end_seq_idx,
                   cpc, memorization_evals, iters, queue_closed, uploaded>>

\* while mp_queue.qsize() > prefetch_max: time.sleep(0.05)
generate_dataset_wait ==
    /\ ppc = "wait"
    /\ IF QueueOverLimit(mp_queue, prefetch_max)
       THEN UNCHANGED ppc
       ELSE ppc' = "loop"
    /\ UNCHANGED <<concatVars, convertVars, barrierVars, partVars, RANK, batch_size,
                   prefetch_max, start_seq_idx, end_seq_idx,
                   mp_queue, it, i, context_tokens, true_continuation, puts, cpc,
                   memorization_evals, iters, queue_closed, uploaded>>

\* the range is exhausted: if len(context_tokens) > 0, put the partial batch
generate_dataset_tail ==
    /\ ppc = "loop"
    /\ it > end_seq_idx
    /\ IF HasPartialBatch(context_tokens)
       THEN /\ mp_queue' = Append(mp_queue,
                  Batch(BatchTag(i, Len(context_tokens)), context_tokens, true_continuation))
            /\ puts' = Append(puts,
                  Batch(BatchTag(i, Len(context_tokens)), context_tokens, true_continuation))
            /\ context_tokens' = <<>>
            /\ true_continuation' = <<>>
       ELSE UNCHANGED <<mp_queue, puts, context_tokens, true_continuation>>
    /\ ppc' = "sentinel"
    /\ UNCHANGED <<concatVars, convertVars, barrierVars, partVars, RANK, batch_size,
                   prefetch_max, start_seq_idx, end_seq_idx,
                   it, i, cpc, memorization_evals, iters, queue_closed, uploaded>>

\* mp_queue.put((None, None, None)), and generate_dataset returns
generate_dataset_sentinel ==
    /\ ppc = "sentinel"
    /\ mp_queue' = Append(mp_queue, Sentinel)
    /\ puts' = Append(puts, Sentinel)
    /\ ppc' = "done"
    /\ UNCHANGED <<concatVars, convertVars, barrierVars, partVars, RANK, batch_size,
                   prefetch_max, start_seq_idx, end_seq_idx,
                   it, i, context_tokens, true_continuation, cpc, memorization_evals,
                   iters, queue_closed, uploaded>>

\* idx, context, true_continuation = mp_queue.get(), which blocks on an empty queue;
\* on the sentinel close the queue and break, else score the batch and log it
main_get ==
    /\ cpc = "loop"
    /\ mp_queue # <<>>
    /\ mp_queue' = Tail(mp_queue)
    /\ LET item == Head(mp_queue)
       IN IF item.idx = None
          THEN /\ queue_closed' = TRUE
               /\ cpc' = "join"
               /\ UNCHANGED memorization_evals
          ELSE /\ memorization_evals' =
                     AppendRecords(memorization_evals, item.idx[1],
                                   score(item.context[1], item.true_continuation[1]))
               /\ cpc' = "barrier"
               /\ UNCHANGED queue_closed
    /\ UNCHANGED <<concatVars, convertVars, barrierVars, partVars, RANK, batch_size,
                   prefetch_max, start_seq_idx, end_seq_idx,
                   ppc, it, i, context_tokens, true_continuation, puts, iters, uploaded>>

\* dist.barrier() after a scored batch (the other ranks are taken to arrive), iters += 1
main_barrier ==
    /\ cpc = "barrier"
    /\ iters' = iters + 1
    /\ cpc' = "loop"
    /\ UNCHANGED <<concatVars, convertVars, barrierVars, partVars, RANK, batch_size,
                   prefetch_max, start_seq_idx, end_seq_idx,
                   mp_queue, ppc, it, i, context_tokens, true_continuation, puts,
                   memorization_evals, queue_closed, uploaded>>

\* ds_process.join() returns once the process of generate_dataset has ended
main_join ==
    /\ cpc = "join"
    /\ ppc \in {"done", "failed"}
    /\ cpc' = "upload"
    /\ UNCHANGED <<concatVars, convertVars, barrierVars, partVars, RANK, batch_size,
                   prefetch_max, start_seq_idx, end_seq_idx,
                   mp_queue, ppc, it, i, context_tokens, true_continuation, puts,
                   memorization_evals, iters, queue_closed, uploaded>>

\* s3.put_object(Body = '\n'.join(memorization_evals)), the last dist.barrier(), return
main_upload ==
    /\ cpc = "upload"
    /\ uploaded' = Some(memorization_evals)
    /\ cpc' = "done"
    /\ UNCHANGED <<concatVars, convertVars, barrierVars, partVars, RANK, batch_size,
                   prefetch_max, start_seq_idx, end_seq_idx,
                   mp_queue, ppc, it, i, context_tokens, true_continuation, puts,
                   memorization_evals, iters, queue_closed>>

Producer ==
    \/ generate_dataset_iter
    \/ generate_dataset_wait
    \/ generate_dataset_tail
    \/ generate_dataset_sentinel

Consumer ==
    \/ main_start
    \/ main_get
    \/ main_barrier
    \/ main_join
    \/ main_upload

Next == Producer \/ Consumer

Spec == InitWorker /\ [][Next]_vars

\* both processes are scheduled: a step that stays possible is eventually taken
LiveSpec == Spec /\ WF_vars(Producer) /\ WF_vars(Consumer)

\* ---------------------------------------------------------------- a producer that fails
\* a producer that puts the sentinel on its way out of a failure
QueueAfterFailureWithSentinel(q) == Append(q, Sentinel)

\* generate_dataset has no handler: a failure puts nothing more on the queue
QueueAfterFailure(q) == q

\* the process of generate_dataset ends abruptly before it has put the sentinel
generate_dataset_fail ==
    /\ ppc \in {"loop", "wait", "sentinel"}
    /\ ppc' = "failed"
    /\ mp_queue' = QueueAfterFailure(mp_queue)
    /\ UNCHANGED <<concatVars, convertVars, barrierVars, partVars, RANK, batch_size,
                   prefetch_max, start_seq_idx,
                   end_seq_idx, it, i, context_tokens, true_continuation, puts, cpc,
                   memorization_evals, iters, queue_closed, uploaded>>

NextFail == Next \/ generate_dataset_fail

SpecFail == InitWorker /\ [][NextFail]_vars

\* C11: once the producer has failed before putting the sentinel, the consumer never
\* leaves the scoring loop (no close, no join, no upload), no sentinel is in the queue,
\* and when it has dequeued what was in the queue it is blocked in mp_queue.get() with
\* no step left to anyone: it stays there forever.
C11_ConsumerBlocked ==
    ppc = "failed" =>
        /\ cpc \in {"loop", "barrier"}
        /\ ~queue_closed
        /\ uploaded = None
        /\ \A k \in 1..Len(mp_queue) : mp_queue[k].idx # None
        /\ (cpc = "loop" /\ mp_queue = <<>>) => ~ENABLED NextFail

\* the producer failed after some batches, the consumer scored them and now waits
C11_Witness ==
    /\ ppc = "failed"
    /\ cpc = "loop"
    /\ mp_queue = <<>>
    /\ iters >= 2
    /\ Len(memorization_evals) < end_seq_idx - start_seq_idx + 1


\* ---------------------------------------------------------------- claims on the worker
RECURSIVE PairsIn(_)
\* the number of (context, continuation) pairs in the batches of a sequence of items
PairsIn(items) ==
    IF items = <<>> THEN 0
    ELSE (IF Head(items).idx = None THEN 0 ELSE Len(Head(items).context[1]))
         + PairsIn(Tail(items))

SentinelsIn(items) == Cardinality({k \in 1..Len(items) : items[k].idx = None})

\* C2: over all batches the producer puts end_seq_idx - start_seq_idx + 1 pairs (each
\* batch holding as many continuations as contexts), it puts exactly one
\* (None, None, None) sentinel, and nothing is ever put after the sentinel.
C2_ProducerTotals ==
    /\ \A k \in 1..Len(puts) :
          /\ puts[k].idx = None => (k = Len(puts) /\ puts[k] = Sentinel)
          /\ puts[k].idx # None => Len(puts[k].context[1]) = Len(puts[k].true_continuation[1])
    /\ ppc # "done" => SentinelsIn(puts) = 0
    /\ ppc = "done" =>
          /\ SentinelsIn(puts) = 1
          /\ puts[Len(puts)] = Sentinel
          /\ PairsIn(puts) = end_seq_idx - start_seq_idx + 1

\* the producer finished a range that ends in a partial batch while the consumer
\* was already taking items
C2_Witness ==
    /\ ppc = "done"
    /\ Len(puts) >= 3
    /\ (end_seq_idx - start_seq_idx + 1) % batch_size # 0
    /\ Len(mp_queue) < Len(puts)
    /\ mp_queue # <<>>

\* C3: while more than prefetch_max items are in the queue the producer puts nothing
\* (no batch, no sentinel), and the queue never holds more than prefetch_max + 1 items.
C3_Backpressure ==
    [][/\ Len(mp_queue) > prefetch_max => Len(mp_queue') <= Len(mp_queue)
       /\ Len(mp_queue') <= prefetch_max + 1]_vars

\* C4: with both processes scheduled fairly the producer puts the sentinel and
\* returns, the consumer takes the sentinel, closes the queue, joins the producer and
\* returns from main, and from then on the queue stays empty: nothing is dequeued later.
C4_Termination ==
    <>[](/\ ppc = "done"
         /\ cpc = "done"
         /\ queue_closed
         /\ mp_queue = <<>>
         /\ puts # <<>>
         /\ puts[Len(puts)] = Sentinel)

\* main returned after the producer had to wait for the consumer with prefetch_max = 0
C4_Witness ==
    /\ cpc = "done"
    /\ ppc = "done"
    /\ prefetch_max = 0
    /\ iters >= 2
    /\ queue_closed

\* the record main logs for global index x
RecordOf(x) == <<x, Accuracy(DatasetText(x, 0, 32), DatasetText(x, 32, 64))>>

\* C8: memorization_evals always is the list of the records of start_idx,
\* start_idx + 1, ... in that order, each computed from the sequence of that index, and
\* when main has left the scoring loop it holds one record for every index of
\* [start_idx, end_idx]; iters counts the batches scored.
C8_ResultLog ==
    cpc # "start" =>
        /\ \A k \in 1..Len(memorization_evals) :
              memorization_evals[k] = RecordOf(start_seq_idx + k - 1)
        /\ cpc \in {"join", "upload", "done"} =>
              Len(memorization_evals) = end_seq_idx - start_seq_idx + 1
        /\ cpc = "done" => uploaded = Some(memorization_evals)

\* a rank other than 0 left the loop after scoring several batches, the last partial
C8_Witness ==
    /\ cpc = "join"
    /\ start_seq_idx > 0
    /\ iters >= 2
    /\ Len(memorization_evals) % batch_size # 0
    /\ Len(memorization_evals) >= 3

\* ---------------------------------------------------------------- the labelled concatenation
\* a Python int
IntTok(n) == <<"int", n>>

\* the Python str f"<|val{x}|>"
SentinelText(x) == <<"str", "<|val", x, "|>">>

\* the Python str str(n)
StrOfInt(n) == <<"str", "", n, "">>

IsInt(e) == e[1] = "int"

\* the texts of the input and what self.tokenizer(sent)["input_ids"] is for each
Sentences == {"a", "b"}
input_ids(sent) == IF sent = "a" THEN <<IntTok(1)>> ELSE <<IntTok(2), IntTok(3)>>

\* the scores of the input, in units of 1e-5: 0.0001, 0.00056, 0.1
Scores == {10, 56, 10000}

\* 5.6e-4 in units of 1e-5
BucketCutoff == 56

\* np.random.uniform() is in [0, 1): 0.0 and 0.9, in tenths
Draws == {0, 9}

\* --label_prob: 0.0, the default 0.9, 1.0, in tenths
LabelProbs == {0, 9, 10}

\* what self.bos_tokens and self.eos_tokens can be: nothing, or one token id
BoundaryTokens == {<<>>, <<IntTok(0)>>}

\* tokenizer.additional_special_tokens after add_special_tokens: the texts
\* "<|val0|>", "<|val1|>", ... (a Python list, indexed from 0)
additional_special_tokens == [x \in 0..(num_sentinels - 1) |-> SentinelText(x)]

\* a classifier that puts the threshold itself in bucket 1
score_to_bucket_inclusive(sc) == IF sc <= BucketCutoff THEN 1 ELSE 0

\* if score < 5.6e-4: return 1 else: return 0
score_to_bucket(sc) == IF sc < BucketCutoff THEN 1 ELSE 0

\* return tokenizer.additional_special_tokens[bucket]
score_to_label(sc) == additional_special_tokens[score_to_bucket(sc)]

\* a draw that also labels when it equals label_prob
UseLabelInclusive(draw, prob) == draw <= prob

\* np.random.uniform() < self.label_prob
UseLabel(draw, prob) == draw < prob

\* iids = [label_token] + encoded["input_ids"], or encoded["input_ids"]
iids(label_token, encoded, draw, prob) ==
    IF UseLabel(draw, prob) THEN <<label_token>> \o encoded ELSE encoded

\* xs[:n] and xs[n:] for n >= 0
Take(xs, n) == SubSeq(xs, 1, Min(n, Len(xs)))
Drop(xs, n) == SubSeq(xs, Min(n, Len(xs)) + 1, Len(xs))

\* a drain loop that runs while anything is left
BufferNonEmpty(buf, maxlen) == Len(buf) > 0

\* a drain loop that stops one window early
BufferOverFull(buf, maxlen) == Len(buf) > maxlen

\* len(buffer) >= self.max_length
BufferFull(buf, maxlen) == Len(buf) >= maxlen

\* concat_sample = buffer[: self.max_length]
concat_sample(buf, maxlen) == Take(buf, maxlen)

\* a drain that always discards, and one that always keeps, the rest
RemainderDiscarded(buf, maxlen, wrap) == <<>>
RemainderKept(buf, maxlen, wrap) == Drop(buf, maxlen)

\* buffer = buffer[self.max_length :] if self.should_wrap else []
Remainder(buf, maxlen, wrap) == IF wrap THEN Drop(buf, maxlen) ELSE <<>>

\* np.asarray(xs): an int64 array of a list of ints; with a str among them numpy
\* makes a unicode array, every int turned into its decimal text
asarray(xs) ==
    IF \A k \in 1..Len(xs) : IsInt(xs[k])
    THEN [dtype |-> "int64", data |-> xs]
    ELSE [dtype |-> "<U", data |-> [k \in 1..Len(xs) |->
                                     IF IsInt(xs[k]) THEN StrOfInt(xs[k][2]) ELSE xs[k]]]

\* {"tokens": np.asarray(concat_sample).tobytes()}: the bytes of the array, which its
\* dtype and elements determine
YieldOf(xs) == [tokens |-> asarray(xs)]

\* the samples with at most n sentences: as many scores as sentences
MatchedSamples(n) ==
    UNION {{[sentences |-> ss, scores |-> sc] :
               ss \in [1..m -> Sentences], sc \in [1..m -> Scores]} : m \in 0..n}

\* malformed samples: one score, or one sentence, short
MismatchedSamples(n) ==
    {[sentences |-> s.sentences, scores |-> SubSeq(s.scores, 1, Len(s.scores) - 1)] :
        s \in {t \in MatchedSamples(n) : Len(t.sentences) >= 1}}
    \cup
    {[sentences |-> SubSeq(s.sentences, 1, Len(s.sentences) - 1), scores |-> s.scores] :
        s \in {t \in MatchedSamples(n) : Len(t.sentences) >= 1}}

Samples(n) == MatchedSamples(n) \cup MismatchedSamples(n)

\* zip(sample["sentences"], sample["scores"]) has the length of the shorter
ZipLen(smp) == Min(Len(smp.sentences), Len(smp.scores))

\* an __iter__ whose assert is gone
LengthsNotAsserted(smp) == TRUE

\* assert len(sample["sentences"]) == len(sample["scores"])
LengthsAsserted(smp) == Len(smp.sentences) = Len(smp.scores)

InitConcat ==
    /\ PartitionIdle
    /\ WorkerIdle
    /\ ConvertIdle
    /\ BarrierIdle
    /\ max_length \in 1..MaxLength
    /\ should_wrap \in BOOLEAN
    /\ label_prob \in LabelProbs
    /\ bos_tokens \in BoundaryTokens
    /\ eos_tokens \in BoundaryTokens
    /\ ipc = "for"
    /\ hf_pos = 0
    /\ sample = [sentences |-> <<>>, scores |-> <<>>]
    /\ sent_pos = 0
    /\ uniform = 0
    /\ buffer = <<>>
    /\ yielded = <<>>
    /\ windows = <<>>
    /\ stream = <<>>
    /\ consumed = 0
    /\ drain_start = <<>>
    /\ drain_count = 0

\* "for sample in self.hf_dataset" takes the next sample; the assert on the lengths
iter_next_sample ==
    /\ ipc = "for"
    /\ hf_pos < MaxSamples
    /\ \E smp \in Samples(MaxSentences - consumed) :
          /\ sample' = smp
          /\ IF ~LengthsAsserted(smp)
             THEN /\ ipc' = "AssertionError"
                  /\ UNCHANGED <<drain_start, drain_count>>
             ELSE IF ZipLen(smp) = 0
             THEN /\ ipc' = "while"
                  /\ drain_start' = buffer
                  /\ drain_count' = 0
             ELSE /\ ipc' = "zip"
                  /\ UNCHANGED <<drain_start, drain_count>>
    /\ hf_pos' = hf_pos + 1
    /\ sent_pos' = 0
    /\ UNCHANGED <<partVars, workerVars, convertVars, barrierVars, max_length,
                   should_wrap, label_prob, bos_tokens,
                   eos_tokens, uniform, buffer, yielded, windows, stream, consumed>>

\* one (sent, score) of the zip: tokenize, label, draw, and append to buffer
iter_sentence ==
    /\ ipc = "zip"
    /\ sent_pos < ZipLen(sample)
    /\ \E draw \in Draws :
          LET encoded == input_ids(sample.sentences[sent_pos + 1])
              label_token == score_to_label(sample.scores[sent_pos + 1])
              piece == bos_tokens \o iids(label_token, encoded, draw, label_prob)
                          \o eos_tokens
          IN /\ uniform' = draw
             /\ buffer' = buffer \o piece
             /\ stream' = stream \o piece
             /\ IF sent_pos + 1 = ZipLen(sample)
                THEN /\ ipc' = "while"
                     /\ drain_start' = buffer \o piece
                     /\ drain_count' = 0
                ELSE UNCHANGED <<ipc, drain_start, drain_count>>
    /\ sent_pos' = sent_pos + 1
    /\ consumed' = consumed + 1
    /\ UNCHANGED <<partVars, workerVars, convertVars, barrierVars, max_length,
                   should_wrap, label_prob, bos_tokens,
                   eos_tokens, hf_pos, sample, yielded, windows>>

\* one turn of "while len(buffer) >= self.max_length": cut a window and yield it
iter_yield ==
    /\ ipc = "while"
    /\ BufferFull(buffer, max_length)
    /\ windows' = Append(windows, concat_sample(buffer, max_length))
    /\ yielded' = Append(yielded, YieldOf(concat_sample(buffer, max_length)))
    /\ buffer' = Remainder(buffer, max_length, should_wrap)
    /\ drain_count' = drain_count + 1
    /\ UNCHANGED <<partVars, workerVars, convertVars, barrierVars, max_length,
                   should_wrap, label_prob, bos_tokens,
                   eos_tokens, ipc, hf_pos, sample, sent_pos, uniform, stream, consumed,
                   drain_start>>

\* the while loop ends: back to the for loop
iter_drain_end ==
    /\ ipc = "while"
    /\ ~BufferFull(buffer, max_length)
    /\ ipc' = "for"
    /\ UNCHANGED <<partVars, workerVars, convertVars, barrierVars, max_length,
                   should_wrap, label_prob, bos_tokens,
                   eos_tokens, hf_pos, sample, sent_pos, uniform, buffer, yielded, windows,
                   stream, consumed, drain_start, drain_count>>

\* self.hf_dataset is exhausted: __iter__ returns, whatever is left in buffer
iter_stop ==
    /\ ipc = "for"
    /\ ipc' = "done"
    /\ UNCHANGED <<partVars, workerVars, convertVars, barrierVars, max_length,
                   should_wrap, label_prob, bos_tokens,
                   eos_tokens, hf_pos, sample, sent_pos, uniform, buffer, yielded, windows,
                   stream, consumed, drain_start, drain_count>>

NextConcat ==
    \/ iter_next_sample
    \/ iter_sentence
    \/ iter_yield
    \/ iter_drain_end
    \/ iter_stop

SpecConcat == InitConcat /\ [][NextConcat]_vars

\* ---------------------------------------------------------------- claims on the concatenation
RECURSIVE Flatten(_)
\* the in-order concatenation of a sequence of lists
Flatten(ws) == IF ws = <<>> THEN <<>> ELSE Head(ws) \o Flatten(Tail(ws))

\* C5: every window yielded holds exactly max_length elements, as a list and as the
\* array serialised from it; a shorter buffer is never yielded, also at end of input.
C5_WindowLength ==
    /\ Len(yielded) = Len(windows)
    /\ \A k \in 1..Len(windows) :
          /\ Len(windows[k]) = max_length
          /\ Len(yielded[k].tokens.data) = max_length

\* the input ended with a non-empty buffer shorter than max_length after a window
\* had been yielded
C5_Witness ==
    /\ ipc = "done"
    /\ windows # <<>>
    /\ buffer # <<>>
    /\ Len(buffer) < max_length

\* C6: with wrapping, the windows yielded so far followed by the buffer are the
\* stream of appended pieces, and when the input has ended the windows are the prefix
\* of the stream of length max_length * floor(L / max_length): fewer than max_length
\* ids are dropped, at the end only.
C6_WrapKeepsAll ==
    should_wrap =>
        /\ Flatten(windows) \o buffer = stream
        /\ ipc = "done" =>
              /\ Flatten(windows) =
                    SubSeq(stream, 1, max_length * (Len(stream) \div max_length))
              /\ Len(stream) - Len(Flatten(windows)) < max_length

\* with wrapping, two samples of one sentence "b" each and max_length = 3: the one
\* window is cut across the two samples, and the last id is dropped at the end
C6_Witness ==
    /\ should_wrap
    /\ ipc = "done"
    /\ hf_pos = 2
    /\ max_length = 3
    /\ stream = <<IntTok(2), IntTok(3), IntTok(2), IntTok(3)>>
    /\ windows = << <<IntTok(2), IntTok(3), IntTok(2)>> >>
    /\ buffer = <<IntTok(3)>>

\* C7: without wrapping, a drain loop that starts with at least max_length ids in
\* the buffer yields exactly one window, the first max_length ids, discards the rest,
\* and the next sample starts from an empty buffer.
C7_NoWrapDiscards ==
    (~should_wrap /\ Len(drain_start) >= max_length) =>
        /\ ipc = "while" =>
              /\ drain_count <= 1
              /\ drain_count = 0 => buffer = drain_start
              /\ drain_count = 1 => buffer = <<>>
        /\ (ipc = "for" /\ hf_pos > 0) =>
              /\ drain_count = 1
              /\ windows[Len(windows)] = Take(drain_start, max_length)
              /\ buffer = <<>>

\* without wrapping, a drain that began with more than max_length ids has ended
C7_Witness ==
    /\ ~should_wrap
    /\ ipc = "for"
    /\ hf_pos = 1
    /\ Len(drain_start) > max_length
    /\ drain_count = 1

\* the elements of xs that are sentinel texts
LabelsIn(xs) == {k \in 1..Len(xs) : \E x \in DOMAIN additional_special_tokens :
                                       xs[k] = additional_special_tokens[x]}

\* C9: with label_prob = 1.0 every sentence appends bos_tokens +
\* [score_to_label(score)] + encoded ids + eos_tokens to the buffer, whatever the draw;
\* with label_prob = 0.0 it appends bos_tokens + encoded ids + eos_tokens, and no label
\* element is in anything appended or yielded.
C9_LabelInjection ==
    [][/\ (ipc = "zip" /\ label_prob = 10) =>
             buffer' = buffer \o bos_tokens
                         \o <<score_to_label(sample.scores[sent_pos + 1])>>
                         \o input_ids(sample.sentences[sent_pos + 1]) \o eos_tokens
       /\ (ipc = "zip" /\ label_prob = 0) =>
             buffer' = buffer \o bos_tokens
                         \o input_ids(sample.sentences[sent_pos + 1]) \o eos_tokens
       /\ label_prob = 0 =>
             /\ LabelsIn(stream') = {}
             /\ \A k \in 1..Len(windows') : LabelsIn(windows'[k]) = {}]_vars

\* with label_prob = 1.0 a sentence was labelled on the largest draw, and a window
\* that holds a label was yielded
C9_Witness ==
    /\ label_prob = 10
    /\ uniform = 9
    /\ consumed >= 1
    /\ windows # <<>>
    /\ LabelsIn(windows[1]) # {}

\* C10: every element of every yielded window is an integer token id, a label
\* element being the integer vocabulary id of a registered sentinel token.
C10_IntegerIds ==
    \A k \in 1..Len(yielded) :
        /\ yielded[k].tokens.dtype = "int64"
        /\ \A j \in 1..Len(windows[k]) : IsInt(windows[k][j])

\* C12: a sample with len(sentences) # len(scores) makes __iter__ fail with the
\* AssertionError before any of its sentences is tokenized or buffered (buffer, stream
\* and the windows yielded stay as they were), and after the failure __iter__ takes
\* no step: no window for that sample or a later one.
C12_ShapeMismatchFails ==
    [][/\ (ipc = "for" /\ Len(sample'.sentences) # Len(sample'.scores)) =>
             /\ ipc' = "AssertionError"
             /\ sent_pos' = 0
             /\ buffer' = buffer
             /\ stream' = stream
             /\ consumed' = consumed
             /\ yielded' = yielded
             /\ windows' = windows
       /\ ipc # "AssertionError"]_vars

\* the second sample is malformed, after the first one gave a window and left ids
\* in the buffer
C12_Witness ==
    /\ ipc = "AssertionError"
    /\ hf_pos = 2
    /\ Len(sample.sentences) > Len(sample.scores)
    /\ windows # <<>>
    /\ buffer # <<>>

\* ---------------------------------------------------------------- more claims on the worker
\* C13: the k-th batch put (k = 0, 1, ...) is tagged start_seq_idx + k * batch_size and
\* holds the pairs of the sequences from its tag on; it is never empty; it holds
\* batch_size pairs unless it is the last batch, which then ends at end_seq_idx; and
\* when the producer is done every batch, the partial one included, was put before
\* the sentinel.
C13_BatchShape ==
    /\ \A k \in 1..Len(puts) : puts[k].idx # None =>
          LET tag == puts[k].idx[1]
              ctx == puts[k].context[1]
              cont == puts[k].true_continuation[1]
          IN /\ tag = start_seq_idx + (k - 1) * batch_size
             /\ Len(ctx) >= 1
             /\ Len(ctx) <= batch_size
             /\ ctx = [j \in 1..Len(ctx) |-> DatasetText(tag + j - 1, 0, 32)]
             /\ cont = [j \in 1..Len(ctx) |-> DatasetText(tag + j - 1, 32, 64)]
             /\ Len(ctx) < batch_size =>
                   /\ tag + Len(ctx) - 1 = end_seq_idx
                   /\ (k = Len(puts) \/ puts[k + 1].idx = None)
    /\ ppc = "done" =>
          Len(puts) - 1 = (end_seq_idx - start_seq_idx + batch_size) \div batch_size

\* a rank other than 0 put a full batch, a partial one and the sentinel
C13_Witness ==
    /\ ppc = "done"
    /\ start_seq_idx > 0
    /\ Len(puts) = 3
    /\ batch_size >= 2
    /\ Len(puts[1].context[1]) = batch_size
    /\ Len(puts[2].context[1]) < batch_size
    /\ puts[3].idx = None

\* C18: the (context, continuation) sequences held in the queue and not yet consumed
\* are never more than prefetch_max.
C18_PrefetchedSequences == PairsIn(mp_queue) <= prefetch_max

\* ---------------------------------------------------------------- more claims on the partitioning
\* C14: a rank below NUM_PROCS - 1 gets exactly total \div NUM_PROCS indices from
\* (total \div NUM_PROCS) * rank on; the last rank gets total \div NUM_PROCS +
\* total % NUM_PROCS indices, so it exceeds the others by at most NUM_PROCS - 1.
C14_PartitionSizes ==
    \A r \in DOMAIN ranges : ranges[r] # <<>> =>
        LET share == total_num_sequences \div NUM_PROCS
            size == ranges[r][2] - ranges[r][1] + 1
        IN /\ ranges[r][1] = share * r
           /\ r < NUM_PROCS - 1 => size = share
           /\ r = NUM_PROCS - 1 =>
                 /\ size = share + (total_num_sequences % NUM_PROCS)
                 /\ size - share <= NUM_PROCS - 1

\* every rank computed its range and the last rank exceeds the others by NUM_PROCS - 1
C14_Witness ==
    /\ AllRanksComputed
    /\ NUM_PROCS >= 3
    /\ total_num_sequences \div NUM_PROCS >= 1
    /\ total_num_sequences % NUM_PROCS = NUM_PROCS - 1
    /\ ranges[NUM_PROCS - 1][2] - ranges[NUM_PROCS - 1][1] + 1
           = (total_num_sequences \div NUM_PROCS) + NUM_PROCS - 1

C20_BufferBelowWindow ==
    (\/ ipc \in {"for", "done", "AssertionError"}
     \/ (ipc = "zip" /\ sent_pos = 0)) => Len(buffer) < max_length

\* with wrapping, the drain of the second sample cut a window from max_length or more
\* ids and left max_length - 1 of them for the next sample
C20_Witness ==
    /\ should_wrap
    /\ ipc = "for"
    /\ hf_pos = 2
    /\ max_length >= 2
    /\ Len(drain_start) >= max_length
    /\ drain_count >= 1
    /\ Len(buffer) = max_length - 1

\* ---------------------------------------------------------------- SpecConvert
\* file and split names are tuples of characters
NameTrain == <<"t", "r", "a", "i", "n">>
NameVal == <<"v", "a", "l">>
NameT == <<"t">>
NameX == <<"x">>

\* the values of --split, and the entries out_root can hold
SplitNames == {NameTrain, NameVal}
Entries == {NameTrain, NameVal, NameT, NameX}

\* set(parsed.split): the set of the one-character strings of a str
CharsOf(name) == {<<name[k]>> : k \in DOMAIN name}

\* set(os.listdir(parsed.out_root)).intersection(set(parsed.split))
Overlap(listing, split) == listing \cap CharsOf(split)

\* an exception raised at a line of the script
Raise(exc, line) == Some([exc |-> exc, line |-> line])

\* the number of windows or texts the dataset can still give is not modelled: any
\* number of samples up to MaxRecords is written
InitConvert ==
    /\ PartitionIdle
    /\ WorkerIdle
    /\ ConcatIdle
    /\ BarrierIdle
    /\ out_root_isdir \in BOOLEAN
    /\ out_root_listdir \in SUBSET Entries
    /\ ~out_root_isdir => out_root_listdir = {}
    /\ args_split \in SplitNames
    /\ args_concat_tokens \in {None} \cup {Some(n) : n \in 1..MaxLength}
    /\ args_tokenizer \in {None, Some("tokenizer")}
    /\ args_num_sentinels \in {None} \cup {Some(n) : n \in 0..num_sentinels}
    /\ boundary_text \in {"", "<|endoftext|>"}
    /\ tokenizer_inserts \in BOOLEAN
    /\ mpc = "parse_args"
    /\ raised = None
    /\ mode = ""
    /\ tokenizer = None
    /\ columns = ""
    /\ dataset = ""
    /\ written = <<>>

\* parse_args, lines 58-66: the check of out_root against the split; building the
\* message of the ValueError reads parsed.splits, which the Namespace does not have
parse_args_collision ==
    /\ mpc = "parse_args"
    /\ IF out_root_isdir /\ Cardinality(Overlap(out_root_listdir, args_split)) > 0
       THEN /\ raised' = Raise("AttributeError", 65)
            /\ mpc' = "raised"
       ELSE /\ mpc' = "concat_options"
            /\ UNCHANGED raised
    /\ UNCHANGED <<partVars, workerVars, concatVars, barrierVars, out_root_isdir,
                   out_root_listdir, args_split, args_concat_tokens, args_tokenizer,
                   args_num_sentinels, boundary_text, tokenizer_inserts, mode, tokenizer,
                   columns, dataset, written>>

\* parse_args, lines 68-81: --concat_tokens needs --tokenizer; parser.error exits
parse_args_concat_options ==
    /\ mpc = "concat_options"
    /\ IF args_concat_tokens # None /\ args_tokenizer = None
       THEN /\ raised' = Raise("SystemExit", 74)
            /\ mpc' = "raised"
       ELSE /\ mpc' = "main"
            /\ UNCHANGED raised
    /\ UNCHANGED <<partVars, workerVars, concatVars, barrierVars, out_root_isdir,
                   out_root_listdir, args_split, args_concat_tokens, args_tokenizer,
                   args_num_sentinels, boundary_text, tokenizer_inserts, mode, tokenizer,
                   columns, dataset, written>>

\* main, lines 243-252: the mode, the tokenizer and the columns
main_mode ==
    /\ mpc = "main"
    /\ IF args_concat_tokens # None
       THEN /\ mode' = "CONCAT_TOKENS"
            /\ tokenizer' = Some(0)
            /\ columns' = "tokens"
       ELSE /\ mode' = "NO_CONCAT"
            /\ tokenizer' = None
            /\ columns' = "text"
    /\ mpc' = "add_special_tokens"
    /\ UNCHANGED <<partVars, workerVars, concatVars, barrierVars, out_root_isdir,
                   out_root_listdir, args_split, args_concat_tokens, args_tokenizer,
                   args_num_sentinels, boundary_text, tokenizer_inserts, raised, dataset,
                   written>>

\* main, lines 256-269: tokenizer.add_special_tokens, in either mode, then the prints
\* and save_pretrained
main_add_special_tokens ==
    /\ mpc = "add_special_tokens"
    /\ IF tokenizer = None
       THEN /\ raised' = Raise("AttributeError", 256)
            /\ mpc' = "raised"
            /\ UNCHANGED tokenizer
       ELSE IF args_num_sentinels = None
       THEN /\ raised' = Raise("TypeError", 259)
            /\ mpc' = "raised"
            /\ UNCHANGED tokenizer
       ELSE /\ tokenizer' = Some(args_num_sentinels[1])
            /\ mpc' = "build_hf_dataset"
            /\ UNCHANGED raised
    /\ UNCHANGED <<partVars, workerVars, concatVars, barrierVars, out_root_isdir,
                   out_root_listdir, args_split, args_concat_tokens, args_tokenizer,
                   args_num_sentinels, boundary_text, tokenizer_inserts, mode, columns,
                   dataset, written>>

\* main, lines 295-306, and build_hf_dataset, lines 174-207
main_build_hf_dataset ==
    /\ mpc = "build_hf_dataset"
    /\ IF mode = "NO_CONCAT"
       THEN /\ dataset' = "NoConcatDataset"
            /\ mpc' = "write"
            /\ UNCHANGED raised
       ELSE IF boundary_text = "" /\ ~tokenizer_inserts
       THEN /\ raised' = Raise("ValueError", 196)
            /\ mpc' = "raised"
            /\ UNCHANGED dataset
       ELSE /\ dataset' = "ConcatLabeledTokensDataset"
            /\ mpc' = "write"
            /\ UNCHANGED raised
    /\ UNCHANGED <<partVars, workerVars, concatVars, barrierVars, out_root_isdir,
                   out_root_listdir, args_split, args_concat_tokens, args_tokenizer,
                   args_num_sentinels, boundary_text, tokenizer_inserts, mode, tokenizer,
                   columns, written>>

\* main, lines 317-319: out.write(sample) for one more sample of the dataset; a
\* sample of ConcatLabeledTokensDataset is {"tokens": ...}, one of NoConcatDataset
\* {"text": ...}
main_write ==
    /\ mpc = "write"
    /\ Len(written) < MaxRecords
    /\ written' = Append(written, IF dataset = "NoConcatDataset" THEN "text" ELSE "tokens")
    /\ UNCHANGED <<partVars, workerVars, concatVars, barrierVars, out_root_isdir,
                   out_root_listdir, args_split, args_concat_tokens, args_tokenizer,
                   args_num_sentinels, boundary_text, tokenizer_inserts, mpc, raised, mode,
                   tokenizer, columns, dataset>>

\* main, line 318: the iteration of ConcatLabeledTokensDataset fails, on the assert of
\* line 102 for a malformed sample, or in score_to_label (line 292) when fewer than
\* two sentinels were registered
main_write_raise ==
    /\ mpc = "write"
    /\ dataset = "ConcatLabeledTokensDataset"
    /\ \/ raised' = Raise("AssertionError", 102)
       \/ /\ tokenizer[1] < 2
          /\ raised' = Raise("IndexError", 292)
    /\ mpc' = "raised"
    /\ UNCHANGED <<partVars, workerVars, concatVars, barrierVars, out_root_isdir,
                   out_root_listdir, args_split, args_concat_tokens, args_tokenizer,
                   args_num_sentinels, boundary_text, tokenizer_inserts, mode, tokenizer,
                   columns, dataset, written>>

\* main, line 319: the dataset is exhausted, the writer is closed, main returns
main_return ==
    /\ mpc = "write"
    /\ mpc' = "done"
    /\ UNCHANGED <<partVars, workerVars, concatVars, barrierVars, out_root_isdir,
                   out_root_listdir, args_split, args_concat_tokens, args_tokenizer,
                   args_num_sentinels, boundary_text, tokenizer_inserts, raised, mode,
                   tokenizer, columns, dataset, written>>

NextConvert ==
    \/ parse_args_collision
    \/ parse_args_concat_options
    \/ main_mode
    \/ main_add_special_tokens
    \/ main_build_hf_dataset
    \/ main_write
    \/ main_write_raise
    \/ main_return

SpecConvert == InitConvert /\ [][NextConvert]_vars

\* ---------------------------------------------------------------- claims on the converter
\* C16: once the collision check of parse_args has run, the script has failed there
\* if out_root is a directory with an entry named as the split, and has not failed
\* there if out_root has no entry named as the split.
C16_CollisionCheck ==
    mpc # "parse_args" =>
        /\ (out_root_isdir /\ args_split \in out_root_listdir) =>
              (raised # None /\ raised[1].line \in 60..66)
        /\ (args_split \notin out_root_listdir) =>
              ~(raised # None /\ raised[1].line \in 60..66)

\* C17: without --concat_tokens main raises nothing and, when it has returned, every
\* sample written is a {text} record; with --concat_tokens every sample written is a
\* {tokens} record.
C17_ModesWrite ==
    /\ args_concat_tokens = None =>
          /\ ~(raised # None /\ raised[1].line >= 234)
          /\ \A k \in 1..Len(written) : written[k] = "text"
    /\ args_concat_tokens # None =>
          \A k \in 1..Len(written) : written[k] = "tokens"

\* ---------------------------------------------------------------- SpecBarrier
\* every rank of one run executes main; the ranks meet at dist.barrier(). BATCH_SIZE
\* and the sequences of a checkpoint step are both 1024 in the script (lines 123 and
\* 155); here they are one scaled-down number, so total_num_sequences is still
\* CHECKPOINT * BATCH_SIZE.

\* the batches generate_dataset puts for a range of size sequences: one per full
\* batch_size (line 79) and one for a non-empty rest (line 87)
NumBatches(size, bsize) == (size + bsize - 1) \div bsize

\* the dist.barrier() calls of main, and the places they return to
BarrierSites == {"barrier149", "barrier175", "barrier198", "barrier212"}
AfterBarrier(site) ==
    CASE site = "barrier149" -> "partition"
      [] site = "barrier175" -> "loop"
      [] site = "barrier198" -> "loop"
      [] site = "barrier212" -> "returned"

\* a rank is inside a barrier call
Waiting(pc) == \E site \in BarrierSites : pc = <<"in", site>>

InitBarrier ==
    /\ WorkerIdle
    /\ ConcatIdle
    /\ ConvertIdle
    /\ BATCH_SIZE \in 1..MaxBatch
    /\ \E c \in 1..MaxCheckpoint : total_num_sequences = c * BATCH_SIZE
    /\ NUM_PROCS \in 1..MaxProcs
    /\ ranges = [r \in 0..(NUM_PROCS - 1) |-> <<>>]
    /\ wpc = [r \in 0..(NUM_PROCS - 1) |-> <<"at", "barrier149">>]
    /\ arrived = [r \in 0..(NUM_PROCS - 1) |-> 0]
    /\ todo = [r \in 0..(NUM_PROCS - 1) |-> 0]

\* rank r calls dist.barrier() (lines 149, 175, 198, 212)
barrier_enter(r) ==
    /\ wpc[r][1] = "at"
    /\ wpc[r][2] \in BarrierSites
    /\ wpc' = [wpc EXCEPT ![r] = <<"in", wpc[r][2]>>]
    /\ arrived' = [arrived EXCEPT ![r] = arrived[r] + 1]
    /\ UNCHANGED <<partVars, workerVars, concatVars, convertVars, BATCH_SIZE, todo>>

\* the k-th dist.barrier() of rank r returns once every rank has made its k-th call
barrier_return(r) ==
    /\ Waiting(wpc[r])
    /\ \A q \in 0..(NUM_PROCS - 1) : arrived[q] >= arrived[r]
    /\ wpc' = [wpc EXCEPT ![r] = <<"at", AfterBarrier(wpc[r][2])>>]
    /\ UNCHANGED <<partVars, workerVars, concatVars, convertVars, BATCH_SIZE, arrived,
                   todo>>

\* rank r executes lines 155-165: its range, and the ds_process that will deliver the
\* batches of that range
main_range(r) ==
    /\ wpc[r] = <<"at", "partition">>
    /\ ranges' = [ranges EXCEPT ![r] =
                    <<start_idx(total_num_sequences, NUM_PROCS, r),
                      end_idx(total_num_sequences, NUM_PROCS, r)>>]
    /\ todo' = [todo EXCEPT ![r] =
                  NumBatches(end_idx(total_num_sequences, NUM_PROCS, r)
                                 - start_idx(total_num_sequences, NUM_PROCS, r) + 1,
                             BATCH_SIZE)]
    /\ wpc' = [wpc EXCEPT ![r] = <<"at", "barrier175">>]
    /\ UNCHANGED <<total_num_sequences, NUM_PROCS, workerVars, concatVars, convertVars,
                   BATCH_SIZE, arrived>>

\* rank r gets a batch and scores it (lines 184-196); the barrier of line 198 is next
main_score_batch(r) ==
    /\ wpc[r] = <<"at", "loop">>
    /\ todo[r] > 0
    /\ todo' = [todo EXCEPT ![r] = todo[r] - 1]
    /\ wpc' = [wpc EXCEPT ![r] = <<"at", "barrier198">>]
    /\ UNCHANGED <<partVars, workerVars, concatVars, convertVars, BATCH_SIZE, arrived>>

\* rank r gets the sentinel, breaks, joins ds_process and uploads (lines 184-187 and
\* 203-211); the barrier of line 212 is next
main_finish(r) ==
    /\ wpc[r] = <<"at", "loop">>
    /\ todo[r] = 0
    /\ wpc' = [wpc EXCEPT ![r] = <<"at", "barrier212">>]
    /\ UNCHANGED <<partVars, workerVars, concatVars, convertVars, BATCH_SIZE, arrived,
                   todo>>

NextBarrier ==
    \/ \E r \in 0..(NUM_PROCS - 1) : barrier_enter(r)
    \/ \E r \in 0..(NUM_PROCS - 1) : barrier_return(r)
    \/ \E r \in 0..(NUM_PROCS - 1) : main_range(r)
    \/ \E r \in 0..(NUM_PROCS - 1) : main_score_batch(r)
    \/ \E r \in 0..(NUM_PROCS - 1) : main_finish(r)

SpecBarrier == InitBarrier /\ [][NextBarrier]_vars

\* ---------------------------------------------------------------- claims on the barriers
\* C19: the ranks that computed their ranges score the same number of batches, hence
\* make the same number of dist.barrier() calls, and the run never stops with a rank
\* that has not returned from main: a step is possible until every rank has returned.
C19_BarriersMatch ==
    /\ \A r, q \in 0..(NUM_PROCS - 1) : (ranges[r] # <<>> /\ ranges[q] # <<>>) =>
          NumBatches(ranges[r][2] - ranges[r][1] + 1, BATCH_SIZE)
              = NumBatches(ranges[q][2] - ranges[q][1] + 1, BATCH_SIZE)
    /\ \/ \A r \in 0..(NUM_PROCS - 1) : wpc[r] = <<"at", "returned">>
       \/ ENABLED NextBarrier

====
